---- MODULE Spec2Model ----
(***************************************************************************)
(* Job ingestion pipeline of aidrr-tech-jobs-bot.                          *)
(*                                                                         *)
(* Two scripts are modelled, selected by the variable `script`:            *)
(*   "jobbot"   - src/jobbot.py                    (operators without a    *)
(*                prefix and actions J_...)                                *)
(*   "workflow" - src/.github/workflows/jobbot.py  (operators and actions  *)
(*                W_...)                                                   *)
(* A run of main is a sequence of steps, one action per loop iteration or  *)
(* straight-line block.  The environment (upstream API, Slack webhook,     *)
(* file system) is nondeterministic.                                       *)
(*                                                                         *)
(* Abstractions:                                                           *)
(*  - strings are tokens; strip/upper/lower are tables over the tokens;    *)
(*  - sha256 is injective: a fingerprint is the tuple of the hashed        *)
(*    strings;                                                             *)
(*  - a formatted block is the pair (fingerprint, length in characters);   *)
(*  - the SeenSet is a set of fingerprints of catalogue postings plus a    *)
(*    count `old` of fingerprints of postings no longer upstream.          *)
(*                                                                         *)
(* Specifications:                                                         *)
(*   Spec        - one run of either script over a catalogue of one or two *)
(*                 postings of Pool;                                       *)
(*   SpecRuns    - MaxRuns runs in a row over the same catalogue;          *)
(*   SpecDeliver - the delivery phase alone, over the job lists of         *)
(*                 DeliverInputs;                                          *)
(*   SpecBudget  - a run from a later planned request on, after earlier    *)
(*                 responses brought POST_LIMIT - 1 or POST_LIMIT new      *)
(*                 postings.                                               *)
(***************************************************************************)
EXTENDS Integers, Sequences, FiniteSets, TLC

(***************************************************************************)
(* Bounds of the model                                                     *)
(***************************************************************************)
\* planned role groups (jobbot.py has 7 groups, the workflow script 7 queries)
NumGroups == 2
\* elements in one upstream response list
MaxJobs == 2
\* runs in a row explored by SpecRuns
MaxRuns == 2
\* blocks handed to the delivery phase in SpecDeliver
MaxItems == 3

(***************************************************************************)
(* Program constants                                                       *)
(***************************************************************************)
PAGES_PER_QUERY == 1
MAX_RETRIES_429 == 3
SLACK_CHUNK_CHAR_LIMIT == 3000
\* list(seen)[-3000:]
STATE_KEEP == 3000
\* new_jobs[:20]
POST_LIMIT == 20

(***************************************************************************)
(* Strings                                                                 *)
(***************************************************************************)
\* a truthy value that is not a string (a number, a list): .strip() raises
NonStr == "<nonstr>"

\* s.strip().upper() on the country-code tokens
StripUpper(s) ==
    CASE s = "ca " -> "CA"
      [] s = " us" -> "US"
      [] OTHER -> s

\* s.strip().lower() on the country, city and location tokens
StripLower(s) ==
    CASE s = "Canada" -> "canada"
      [] s = "United States" -> "united states"
      [] s = "USA" -> "usa"
      [] s = "Toronto" -> "toronto"
      [] s = "Buffalo" -> "buffalo"
      [] OTHER -> s

\* the keywords of CANADA_KEYWORDS that occur in the tokens of the model
CANADA_KEYWORDS == {"canada", "ontario", "toronto", "vancouver", "quebec"}

(***************************************************************************)
(* Job records as the upstream returns them                                *)
(***************************************************************************)
Job(id, title, cc, country, city, alink, url, n) ==
    [isdict |-> TRUE, job_id |-> id, job_title |-> title,
     job_country_code |-> cc, job_country |-> country, job_city |-> city,
     job_apply_link |-> alink, job_url |-> url, blockLen |-> n]

\* an element of the response list that is not a JSON object
NotADict ==
    [isdict |-> FALSE, job_id |-> "", job_title |-> "",
     job_country_code |-> "", job_country |-> "", job_city |-> "",
     job_apply_link |-> "", job_url |-> "", blockLen |-> 0]

Pool ==
    { Job("a", "t1", "CA", "Canada", "Toronto", "u1", "", 1498),
      \* the posting above with its id in another letter case
      Job("A", "t1", "CA", "Canada", "Toronto", "u1", "", 1498),
      Job("b", "t2", "ca ", "", "", "u2", "", 1498),
      Job("c", "t3", "", "", "Toronto", "", "u3", 1000),
      Job("d", "t4", "US", "Canada", "Toronto", "u4", "", 1000),
      Job("e", "t5", "CA", "Canada", "", "u5", "", 3001),
      Job("f", "t6", "CA", "Canada", "Toronto", "", "", 0),
      Job("g", "t7", "GB", "", "Toronto", "u7", "", 1000),
      Job("h", "t8", "CA", "United States", "", "u8", "", 1000),
      Job("i", "t9", "", "", "Buffalo", "u9", "", 1000),
      Job("", "t10", "", "Canada", "", "u10", "", 1000),
      Job("j", "t11", NonStr, "", "", "u11", "", 1000),
      Job("k", "t12", "", "", NonStr, "u12", "", 1000),
      NotADict }


(***************************************************************************)
(* src/jobbot.py: helpers                                                  *)
(***************************************************************************)
EmptySeen == [fps |-> {}, old |-> 0]

\* load_seen: a JSON list or a {"seen": [...]} object gives its set, anything
\* else (absent, not JSON, another JSON value) gives the empty set
load_seen(f) ==
    IF f.kind \in {"list", "seenobj"} THEN [fps |-> f.fps, old |-> f.old]
    ELSE EmptySeen

\* save_seen: outcome "ok" overwrites the file with {"seen": sorted(seen)};
\* open() failing leaves the file as it was; a failure after open() leaves a
\* truncated file; the exception is swallowed in every case
save_seen(f, s, outcome) ==
    CASE outcome = "ok" -> [kind |-> "seenobj", fps |-> s.fps, old |-> s.old]
      [] outcome = "unwritable" -> f
      [] OTHER -> [kind |-> "invalid", fps |-> {}, old |-> 0]

\* job.get("job_apply_link") or job.get("job_url")
ApplyOrUrl(job) ==
    IF job.job_apply_link # "" THEN job.job_apply_link ELSE job.job_url

\* sha256 of the "|"-joined raw fields, no normalisation of case or blanks
stable_job_id(job) ==
    <<job.job_id, job.job_title, job.job_city, job.job_country, ApplyOrUrl(job)>>

\* apply_options is absent from the records of the model
pick_best_link(job) ==
    IF job.job_apply_link # "" THEN job.job_apply_link ELSE job.job_url

looks_like_us(job) ==
    LET cc == StripUpper(job.job_country_code)
        country_text == StripLower(job.job_country)
    IN  \/ cc = "US"
        \/ country_text = "united states"
        \/ country_text = "usa"

\* .strip() on a non-string raises AttributeError
looks_like_us_raises(job) ==
    \/ job.job_country_code = NonStr
    \/ /\ StripUpper(job.job_country_code) # "US"
       /\ job.job_country = NonStr

is_canada_job(job) ==
    LET cc == StripUpper(job.job_country_code)
        country_text == StripLower(job.job_country)
        combined == StripLower(job.job_city)
    IN  \/ cc = "CA"
        \/ country_text = "canada"
        \/ combined \in CANADA_KEYWORDS

is_canada_job_raises(job) ==
    \/ job.job_country_code = NonStr
    \/ /\ StripUpper(job.job_country_code) # "CA"
       /\ \/ job.job_country = NonStr
          \/ /\ StripLower(job.job_country) # "canada"
             /\ job.job_city = NonStr

None == [jid |-> <<>>, len |-> 0]

\* format_job: None without a link, else the Slack block
format_job(job) ==
    IF pick_best_link(job) = "" THEN None
    ELSE [jid |-> stable_job_id(job), len |-> job.blockLen]

format_job_raises(job) ==
    NonStr \in {job.job_title, job.job_city, job.job_country}

\* the loop over jobs without the test of line 334
JobVerdictNoSeenTest(job, s) ==
    CASE ~job.isdict -> "skip"
      [] looks_like_us_raises(job) -> "raise"
      [] looks_like_us(job) -> "skip"
      [] is_canada_job_raises(job) -> "raise"
      [] ~is_canada_job(job) -> "skip"
      [] format_job_raises(job) -> "raise"
      [] format_job(job) = None -> "nolink"
      [] OTHER -> "new"

\* what one iteration of the loop over jobs (lines 320-343) does with job
JobVerdict(job, s) ==
    CASE ~job.isdict -> "skip"
      [] looks_like_us_raises(job) -> "raise"
      [] looks_like_us(job) -> "skip"
      [] is_canada_job_raises(job) -> "raise"
      [] ~is_canada_job(job) -> "skip"
      [] stable_job_id(job) \in s.fps -> "seen"
      [] format_job_raises(job) -> "raise"
      [] format_job(job) = None -> "nolink"
      [] OTHER -> "new"

\* seen.add(jid) moved before the test of the block (line 338)
MarksSeenBeforeFormat(v) == v \in {"new", "nolink"}

\* the iterations of the loop over jobs that reach seen.add(jid) (line 342)
MarksSeen(v) == v = "new"

RECURSIVE SumLen(_)
SumLen(blocks) ==
    IF blocks = <<>> THEN 0 ELSE Head(blocks).len + SumLen(Tail(blocks))

\* len("\n\n".join(chunk))
JoinLen(blocks) ==
    IF blocks = <<>> THEN 0 ELSE SumLen(blocks) + 2 * (Len(blocks) - 1)

\* the flush test of the chunking loop (line 362)
MustFlush(sz, item) == sz + item.len + 2 > SLACK_CHUNK_CHAR_LIMIT

\* the retry cap one attempt too late
GiveUpLate(att) == att > MAX_RETRIES_429 + 1

\* the retry cap of jsearch_request (lines 266, 275)
GiveUp(att) == att > MAX_RETRIES_429

(***************************************************************************)
(* src/.github/workflows/jobbot.py: helpers                                *)
(***************************************************************************)
\* load_state followed by set(state.get("seen", [])): raises on a file that
\* is not JSON or whose JSON value has no .get
W_load_raises(f) == f.kind \in {"invalid", "scalar", "list"}

W_load_state(f) ==
    IF f.kind = "seenobj" THEN [fps |-> f.fps, old |-> f.old] ELSE EmptySeen

\* safe_get(job_id) or safe_get(job_apply_link) or safe_get(job_link);
\* the records of the model carry no job_link
W_unique(job) ==
    IF job.job_id # "" THEN job.job_id ELSE job.job_apply_link

\* sha256(text), injective
h(text) == <<text>>

\* list(seen)[-3000:]: the set has no order, so any STATE_KEEP of its
\* elements may be the ones kept
W_kept(s) ==
    IF Cardinality(s.fps) + s.old <= STATE_KEEP THEN {s}
    ELSE { [fps |-> E, old |-> STATE_KEEP - Cardinality(E)] :
             E \in { X \in SUBSET s.fps : STATE_KEEP - Cardinality(X) \in 0..s.old } }

\* format_job: ", ".join over city, state, country raises on a non-string
W_format_raises(job) == NonStr \in {job.job_city, job.job_country}

W_format_job(job) == [jid |-> h(W_unique(job)), len |-> job.blockLen]

\* new_jobs[:20]
W_limit(jobs) == SubSeq(jobs, 1, IF Len(jobs) < POST_LIMIT THEN Len(jobs) ELSE POST_LIMIT)

(***************************************************************************)
(* State                                                                   *)
(***************************************************************************)
VARIABLES
    script,          \* which script runs: "jobbot" or "workflow"
    configOk,        \* RAPIDAPI_KEY and the webhook URL are set
    catalogue,       \* the postings the upstream can return
    runs,            \* number of runs the scheduler starts
    file,            \* the state file: [kind, fps, old]
    run,             \* number of the current run
    pc,              \* position of the run
    seen,            \* in-memory seen set: [fps, old]
    qi,              \* index of the planned request
    attempt,         \* jsearch_request: attempt
    rate_limited,    \* jsearch_request: rate_limited
    data,            \* kind of the value the request returned
    nleft,           \* elements of the response list still to process
    posted_blocks,   \* jobbot.py: blocks queued for Slack
    new_jobs,        \* workflow script: jobs queued for Slack
    total_found, total_kept_canada, total_new, rate_limited_queries,
    chunk, size, ci, \* the chunking loop
    \* history, not read by the program
    loaded,          \* fingerprints loaded at run start
    posts,           \* messages the sink accepted in this run
    delivered,       \* fingerprints of the blocks the sink accepted, all runs
    file0,           \* fingerprints in the state file before the first run
    writes,          \* writes of the state file attempted in this run
    late,            \* kinds of network calls made after a write in this run
    only429,         \* every attempt of the current request answered 429
    saved,           \* this run wrote its seen set to the state file
    cur,             \* records the upstream returned in this run (SpecRuns)
    prev,            \* cur of the previous run, if that run saved its seen set
    slept,           \* time.sleep(API_CALL_DELAY_SECONDS) ran since the last fetch call
    unlinked         \* format_job returned None for a record in this run

prog == <<seen, qi, attempt, rate_limited, data, nleft, posted_blocks, new_jobs,
          total_found, total_kept_canada, total_new, rate_limited_queries,
          chunk, size, ci>>
env == <<script, configOk, catalogue, runs>>
hist == <<loaded, posts, delivered, file0, writes, late, only429, saved, cur, prev,
          slept, unlinked>>
vars == <<env, file, run, pc, prog, hist>>


(***************************************************************************)
(* Initial states                                                          *)
(***************************************************************************)
\* the fingerprint the running script gives a record
Fingerprint(sc, job) ==
    IF sc = "jobbot" THEN stable_job_id(job) ELSE h(W_unique(job))

\* state files a run can find: none, one that is not JSON, a JSON scalar, a
\* JSON object without "seen", a JSON list and a {"seen": [...]} object; the
\* last two hold at most one
\* fingerprint of a posting of `before`, the object also old fingerprints
\* (none, or one short of STATE_KEEP)
InitFiles(sc, before) ==
    LET known == { Fingerprint(sc, j) : j \in { r \in before : r.isdict } }
        sets == {{}} \cup { {x} : x \in known }
    IN  { [kind |-> k, fps |-> {}, old |-> 0] :
                 k \in {"absent", "invalid", "scalar", "object"} }
        \cup { [kind |-> "list", fps |-> S, old |-> 0] : S \in sets }
        \cup { [kind |-> "seenobj", fps |-> S, old |-> o] :
                 S \in sets, o \in {0, STATE_KEEP - 1} }

\* the upstream holds one or two postings of Pool
Catalogues == { {x, y} : x \in Pool, y \in Pool }

InitRest ==
    /\ run = 1
    /\ pc = "init"
    /\ seen = EmptySeen
    /\ qi = 0
    /\ attempt = 0
    /\ rate_limited = FALSE
    /\ data = "none"
    /\ nleft = 0
    /\ posted_blocks = <<>>
    /\ new_jobs = <<>>
    /\ total_found = 0
    /\ total_kept_canada = 0
    /\ total_new = 0
    /\ rate_limited_queries = 0
    /\ chunk = <<>>
    /\ size = 0
    /\ ci = 0
    /\ loaded = {}
    /\ posts = <<>>
    /\ delivered = {}
    /\ file0 = file.fps
    /\ writes = 0
    /\ late = {}
    /\ only429 = FALSE
    /\ saved = FALSE
    /\ cur = {}
    /\ prev = {}
    /\ slept = FALSE
    /\ unlinked = FALSE

\* one run
Init ==
    /\ script \in {"jobbot", "workflow"}
    /\ configOk \in BOOLEAN
    /\ catalogue \in Catalogues
    /\ runs = 1
    /\ file \in InitFiles(script, catalogue)
    /\ InitRest

\* MaxRuns runs in a row over the same catalogue
InitRuns ==
    /\ script \in {"jobbot", "workflow"}
    /\ configOk = TRUE
    /\ catalogue \in Catalogues
    /\ runs = MaxRuns
    /\ file \in InitFiles(script, {})
    /\ InitRest

\* a posting that passes every filter of both scripts, n characters long
\* once formatted
Filler(i, n) == Job(ToString(i), "t", "CA", "Canada", "", "u", "", n)

ItemLens == {1, 1498, 1499, 2998, 3001}

\* the job lists the fetch phase can hand to the delivery phase: up to
\* MaxItems postings of any of the lengths, or POST_LIMIT and POST_LIMIT + 1
\* short ones
DeliverInputs ==
    LET lens == UNION { [1..n -> ItemLens] : n \in 0..MaxItems }
    IN  { [i \in 1..Len(ls) |-> Filler(i, ls[i])] : ls \in lens }
        \cup { [i \in 1..n |-> Filler(i, 1)] : n \in {POST_LIMIT, POST_LIMIT + 1} }

\* the delivery phase alone: the state after the fetch phase found the new
\* postings `jobs` and wrote the state file (jobbot.py line 351, workflow
\* line 136)
InitDeliver ==
    /\ script \in {"jobbot", "workflow"}
    /\ configOk = TRUE
    /\ runs = 1
    /\ run = 1
    /\ \E jobs \in DeliverInputs :
         LET n == Len(jobs)
             fps == { Fingerprint(script, jobs[i]) : i \in 1..n }
         IN  /\ catalogue = { jobs[i] : i \in 1..n }
             /\ seen = [fps |-> fps, old |-> 0]
             /\ file = [kind |-> "seenobj", fps |-> fps, old |-> 0]
             /\ IF script = "jobbot"
                THEN /\ posted_blocks = [i \in 1..n |-> format_job(jobs[i])]
                     /\ new_jobs = <<>>
                     /\ total_found = n /\ total_kept_canada = n /\ total_new = n
                     /\ pc = "summary"
                ELSE /\ posted_blocks = <<>>
                     /\ new_jobs = jobs
                     /\ total_found = 0 /\ total_kept_canada = 0 /\ total_new = 0
                     /\ pc = "post"
    /\ qi = NumGroups * PAGES_PER_QUERY + 1
    /\ attempt = 0 /\ rate_limited = FALSE /\ data = "none" /\ nleft = 0
    /\ rate_limited_queries = 0
    /\ chunk = <<>> /\ size = 0 /\ ci = 0
    /\ loaded = {} /\ posts = <<>> /\ delivered = {} /\ file0 = {}
    /\ writes = 1 /\ late = {} /\ only429 = FALSE /\ saved = TRUE
    /\ cur = {} /\ prev = {}
    \* jobbot.py slept after its last request (line 312)
    /\ slept = (script = "jobbot")
    /\ unlinked = FALSE

\* the fetch phase after its first requests collected n new postings, at the
\* head of a later planned request (jobbot.py line 296, workflow line 119);
\* the upstream holds these postings and one more
InitBudget ==
    /\ script \in {"jobbot", "workflow"}
    /\ configOk = TRUE
    /\ runs = 1
    /\ run = 1
    /\ catalogue = { Filler(i, 1) : i \in 1..(POST_LIMIT + 1) }
    /\ file = [kind |-> "absent", fps |-> {}, old |-> 0]
    /\ qi \in 2..(NumGroups * PAGES_PER_QUERY)
    /\ \E n \in {POST_LIMIT - 1, POST_LIMIT} :
         LET jobs == [i \in 1..n |-> Filler(i, 1)]
             fps == { Fingerprint(script, jobs[i]) : i \in 1..n }
         IN  /\ seen = [fps |-> fps, old |-> 0]
             /\ IF script = "jobbot"
                THEN /\ posted_blocks = [i \in 1..n |-> format_job(jobs[i])]
                     /\ new_jobs = <<>>
                     /\ total_found = n /\ total_kept_canada = n /\ total_new = n
                     /\ pc = "fetch"
                ELSE /\ posted_blocks = <<>>
                     /\ new_jobs = jobs
                     /\ total_found = 0 /\ total_kept_canada = 0 /\ total_new = 0
                     /\ pc = "query"
    /\ attempt = 0 /\ rate_limited = FALSE /\ data = "none" /\ nleft = 0
    /\ rate_limited_queries = 0
    /\ chunk = <<>> /\ size = 0 /\ ci = 0
    /\ loaded = {} /\ posts = <<>> /\ delivered = {} /\ file0 = {}
    /\ writes = 0 /\ late = {} /\ only429 = FALSE /\ saved = FALSE
    /\ cur = {} /\ prev = {}
    \* jobbot.py slept after its last request (line 312)
    /\ slept = (script = "jobbot")
    /\ unlinked = FALSE

(***************************************************************************)
(* Environment                                                             *)
(***************************************************************************)
\* one HTTP attempt: a 200 response with a JSON body, a 429, a
\* requests.RequestException (timeout, connection error, 5xx through
\* raise_for_status), or a 200 response whose body is not JSON
HttpOutcomes == {"ok", "429", "err", "notjson"}

\* the JSON value of a 200 response: an object whose "data" is a list, an
\* object without "data", an object whose "data" is null, a number
BodyKinds == {"list", "nokey", "null", "scalar"}

\* outcomes of writing the state file
WriteOutcomes == {"ok", "unwritable", "partial"}

Crash == pc' = "crashed"

\* slack_post: the call is made (late if the file was written before), the
\* sink accepts the message or raise_for_status raises
SlackCall(msg, ok) ==
    /\ late' = IF writes > 0 THEN late \cup {"post"} ELSE late
    /\ posts' = IF ok THEN Append(posts, msg) ELSE posts
    /\ delivered' = IF ok THEN delivered \cup { msg.blocks[i].jid : i \in 1..Len(msg.blocks) }
                    ELSE delivered

Msg(kind, blocks) == [kind |-> kind, blocks |-> blocks]

(***************************************************************************)
(* Start of a run                                                          *)
(***************************************************************************)
\* jobbot.py lines 103-107, workflow main lines 92-95
CheckConfig ==
    /\ pc = "init"
    /\ pc' = IF configOk THEN "load" ELSE "aborted"
    /\ UNCHANGED <<env, file, run, prog, hist>>

(***************************************************************************)
(* src/jobbot.py main                                                      *)
(***************************************************************************)
\* lines 284-289
J_Load ==
    /\ script = "jobbot" /\ pc = "load"
    /\ seen' = load_seen(file)
    /\ loaded' = load_seen(file).fps
    /\ posted_blocks' = <<>>
    /\ total_found' = 0 /\ total_kept_canada' = 0 /\ total_new' = 0
    /\ rate_limited_queries' = 0
    /\ qi' = 1
    /\ pc' = "fetch"
    /\ UNCHANGED <<env, file, run, attempt, rate_limited, data, nleft, new_jobs,
                   chunk, size, ci, posts, delivered, file0, writes, late,
                   only429, saved, cur, prev, slept, unlinked>>

\* head of the loops over groups and pages (lines 291-306), entry of
\* jsearch_request (lines 258-259)
J_Plan ==
    /\ script = "jobbot" /\ pc = "fetch"
    /\ IF qi <= NumGroups * PAGES_PER_QUERY
       THEN /\ attempt' = 0 /\ rate_limited' = FALSE /\ only429' = TRUE
            /\ pc' = "request"
       ELSE /\ pc' = "save"
            /\ UNCHANGED <<attempt, rate_limited, only429>>
    /\ UNCHANGED <<env, file, run, seen, qi, data, nleft, posted_blocks, new_jobs,
                   total_found, total_kept_canada, total_new, rate_limited_queries,
                   chunk, size, ci, loaded, posts, delivered, file0, writes,
                   late, saved, cur, prev, slept, unlinked>>

\* one iteration of the while loop of jsearch_request (lines 260-277)
J_Attempt ==
    /\ script = "jobbot" /\ pc = "request"
    /\ attempt' = attempt + 1
    /\ late' = IF writes > 0 THEN late \cup {"fetch"} ELSE late
    /\ slept' = FALSE
    /\ \E outcome \in HttpOutcomes :
         CASE outcome = "429" ->
                /\ rate_limited' = TRUE
                /\ UNCHANGED <<only429, nleft>>
                /\ IF GiveUp(attempt')
                   THEN data' = "none" /\ pc' = "respond"
                   ELSE UNCHANGED <<data, pc>>
           [] outcome = "err" ->
                /\ only429' = FALSE
                /\ UNCHANGED <<rate_limited, nleft>>
                /\ IF GiveUp(attempt')
                   THEN data' = "none" /\ pc' = "respond"
                   ELSE UNCHANGED <<data, pc>>
           [] outcome = "notjson" ->
                \* r.json() raises: a RequestException in requests >= 2.27,
                \* a plain ValueError, which nothing catches, before
                /\ only429' = FALSE
                /\ UNCHANGED <<rate_limited, nleft>>
                /\ \/ IF GiveUp(attempt')
                      THEN data' = "none" /\ pc' = "respond"
                      ELSE UNCHANGED <<data, pc>>
                   \/ Crash /\ UNCHANGED data
           [] OTHER ->
                /\ only429' = FALSE
                /\ UNCHANGED rate_limited
                /\ \E kind \in BodyKinds :
                     /\ data' = kind
                     /\ nleft' \in (IF kind = "list" THEN 0..MaxJobs ELSE {0})
                /\ pc' = "respond"
    /\ UNCHANGED <<env, file, run, seen, qi, posted_blocks, new_jobs,
                   total_found, total_kept_canada, total_new, rate_limited_queries,
                   chunk, size, ci, loaded, posts, delivered, file0, writes,
                   saved, cur, prev, unlinked>>

\* lines 308-318: count the rate-limited query, sleep, check the payload
J_Respond ==
    /\ script = "jobbot" /\ pc = "respond"
    /\ rate_limited_queries' = rate_limited_queries + (IF rate_limited THEN 1 ELSE 0)
    /\ CASE data \in {"none", "nokey", "null"} ->
              /\ qi' = qi + 1 /\ pc' = "fetch" /\ data' = "none"
              /\ UNCHANGED total_found
         [] data = "scalar" ->
              \* "data" not in <number> raises TypeError
              /\ Crash
              /\ UNCHANGED <<qi, total_found, data>>
         [] OTHER ->
              /\ total_found' = total_found + nleft
              /\ pc' = "jobs"
              /\ UNCHANGED <<qi, data>>
    \* the frame of jsearch_request is gone
    /\ attempt' = 0 /\ rate_limited' = FALSE /\ only429' = FALSE
    \* time.sleep(API_CALL_DELAY_SECONDS), line 312
    /\ slept' = TRUE
    /\ UNCHANGED <<env, file, run, seen, nleft,
                   posted_blocks, new_jobs, total_kept_canada, total_new,
                   chunk, size, ci, loaded, posts, delivered, file0, writes,
                   late, saved, cur, prev, unlinked>>

\* one iteration of the loop over jobs (lines 320-343), or its end
J_Job ==
    /\ script = "jobbot" /\ pc = "jobs"
    /\ IF nleft = 0
       THEN /\ qi' = qi + 1 /\ pc' = "fetch" /\ data' = "none"
            /\ UNCHANGED <<nleft, seen, posted_blocks, total_kept_canada, total_new, cur,
                           unlinked>>
       ELSE \E job \in catalogue :
              LET v == JobVerdict(job, seen) IN
              /\ nleft' = nleft - 1
              /\ unlinked' = (unlinked \/ v = "nolink")
              /\ cur' = IF runs > 1 THEN cur \cup {job} ELSE cur
              /\ pc' = IF v = "raise" THEN "crashed" ELSE pc
              /\ total_kept_canada' =
                    total_kept_canada + (IF v \in {"seen", "nolink", "new"} THEN 1 ELSE 0)
              /\ IF v = "new"
                 THEN /\ posted_blocks' = Append(posted_blocks, format_job(job))
                      /\ total_new' = total_new + 1
                 ELSE UNCHANGED <<posted_blocks, total_new>>
              /\ IF MarksSeen(v)
                 THEN seen' = [seen EXCEPT !.fps = @ \cup {stable_job_id(job)}]
                 ELSE UNCHANGED seen
              /\ UNCHANGED <<qi, data>>
    /\ UNCHANGED <<env, file, run, attempt, rate_limited, new_jobs,
                   total_found, rate_limited_queries, chunk, size, ci,
                   loaded, posts, delivered, file0, writes, late, only429, saved, prev, slept>>

\* line 345
J_Save ==
    /\ script = "jobbot" /\ pc = "save"
    /\ \E outcome \in WriteOutcomes :
         /\ file' = save_seen(file, seen, outcome)
         /\ saved' = (outcome = "ok")
    /\ writes' = writes + 1
    /\ pc' = "summary"
    /\ UNCHANGED <<env, run, prog, loaded, posts, delivered, file0, late,
                   only429, cur, prev, slept, unlinked>>

\* lines 351-356 (header) and 372-384 (no new jobs)
J_Summary ==
    /\ script = "jobbot" /\ pc = "summary"
    /\ \E ok \in BOOLEAN :
         /\ SlackCall(Msg("summary", <<>>), ok)
         /\ pc' = IF ~ok THEN "crashed" ELSE IF total_new > 0 THEN "chunk" ELSE "done"
    /\ chunk' = <<>> /\ size' = 0 /\ ci' = 1
    /\ UNCHANGED <<env, file, run, seen, qi, attempt, rate_limited, data, nleft,
                   posted_blocks, new_jobs, total_found, total_kept_canada,
                   total_new, rate_limited_queries, loaded, file0, writes,
                   only429, saved, cur, prev, slept, unlinked>>

\* one iteration of the chunking loop (lines 361-367)
J_Chunk ==
    /\ script = "jobbot" /\ pc = "chunk" /\ ci <= Len(posted_blocks)
    /\ LET item == posted_blocks[ci] IN
         IF MustFlush(size, item)
         THEN \E ok \in BOOLEAN :
                /\ SlackCall(Msg("batch", chunk), ok)
                /\ IF ok
                   THEN /\ chunk' = <<item>> /\ size' = item.len + 2
                        /\ ci' = ci + 1 /\ UNCHANGED pc
                   ELSE Crash /\ UNCHANGED <<chunk, size, ci>>
         ELSE /\ chunk' = Append(chunk, item) /\ size' = size + item.len + 2
              /\ ci' = ci + 1
              /\ UNCHANGED <<pc, posts, delivered, late>>
    /\ UNCHANGED <<env, file, run, seen, qi, attempt, rate_limited, data, nleft,
                   posted_blocks, new_jobs, total_found, total_kept_canada,
                   total_new, rate_limited_queries, loaded, file0, writes,
                   only429, saved, cur, prev, slept, unlinked>>

\* lines 368-370
J_Flush ==
    /\ script = "jobbot" /\ pc = "chunk" /\ ci > Len(posted_blocks)
    /\ IF chunk # <<>>
       THEN \E ok \in BOOLEAN :
              /\ SlackCall(Msg("batch", chunk), ok)
              /\ pc' = IF ok THEN "done" ELSE "crashed"
       ELSE pc' = "done" /\ UNCHANGED <<posts, delivered, late>>
    /\ UNCHANGED <<env, file, run, prog, loaded, file0, writes, only429, saved, cur, prev, slept, unlinked>>


(***************************************************************************)
(* src/.github/workflows/jobbot.py main                                    *)
(***************************************************************************)
\* lines 114-117
W_Load ==
    /\ script = "workflow" /\ pc = "load"
    /\ IF W_load_raises(file)
       THEN Crash /\ UNCHANGED <<seen, loaded, new_jobs, qi>>
       ELSE /\ seen' = W_load_state(file)
            /\ loaded' = W_load_state(file).fps
            /\ new_jobs' = <<>>
            /\ qi' = 1
            /\ pc' = "query"
    /\ UNCHANGED <<env, file, run, attempt, rate_limited, data, nleft, posted_blocks,
                   total_found, total_kept_canada, total_new, rate_limited_queries,
                   chunk, size, ci, posts, delivered, file0, writes, late,
                   only429, saved, cur, prev, slept, unlinked>>

\* head of the loop over queries (line 119), jsearch_query (lines 35-54) and
\* data.get("data", []) (line 121): every failure raises out of main
W_Query ==
    /\ script = "workflow" /\ pc = "query"
    /\ IF qi <= NumGroups
       THEN /\ late' = IF writes > 0 THEN late \cup {"fetch"} ELSE late
            /\ slept' = FALSE
            /\ \E outcome \in HttpOutcomes :
                 IF outcome # "ok"
                 THEN Crash /\ UNCHANGED <<data, nleft, qi>>
                 ELSE \E kind \in BodyKinds :
                        /\ data' = (IF kind = "nokey" THEN "none" ELSE kind)
                        /\ CASE kind \in {"scalar", "null"} ->
                                  Crash /\ UNCHANGED <<nleft, qi>>
                             [] kind = "nokey" ->
                                  qi' = qi + 1 /\ UNCHANGED <<nleft, pc>>
                             [] OTHER ->
                                  nleft' \in 0..MaxJobs /\ pc' = "jobs" /\ UNCHANGED qi
       ELSE pc' = "save" /\ UNCHANGED <<data, nleft, qi, late, slept>>
    /\ UNCHANGED <<env, file, run, seen, attempt, rate_limited, posted_blocks, new_jobs,
                   total_found, total_kept_canada, total_new, rate_limited_queries,
                   chunk, size, ci, loaded, posts, delivered, file0, writes,
                   only429, saved, cur, prev, unlinked>>

\* one iteration of the loop over jobs (lines 121-130), or its end
W_Job ==
    /\ script = "workflow" /\ pc = "jobs"
    /\ IF nleft = 0
       THEN /\ qi' = qi + 1 /\ pc' = "query" /\ data' = "none"
            /\ UNCHANGED <<nleft, seen, new_jobs, cur>>
       ELSE \E job \in catalogue :
              LET unique == W_unique(job)
                  key == h(unique)
              IN
              /\ nleft' = nleft - 1
              /\ UNCHANGED <<qi, data>>
              /\ cur' = IF runs > 1 THEN cur \cup {job} ELSE cur
              /\ IF ~job.isdict
                 THEN \* safe_get calls .get on a non-dict
                      Crash /\ UNCHANGED <<seen, new_jobs>>
                 ELSE /\ UNCHANGED pc
                      /\ IF unique # "" /\ key \notin seen.fps
                         THEN /\ seen' = [seen EXCEPT !.fps = @ \cup {key}]
                              /\ new_jobs' = Append(new_jobs, job)
                         ELSE UNCHANGED <<seen, new_jobs>>
    /\ UNCHANGED <<env, file, run, attempt, rate_limited, posted_blocks,
                   total_found, total_kept_canada, total_new, rate_limited_queries,
                   chunk, size, ci, loaded, posts, delivered, file0, writes,
                   late, only429, saved, prev, slept, unlinked>>

\* lines 133-134: truncate and write; a failed write raises out of main
W_Save ==
    /\ script = "workflow" /\ pc = "save"
    /\ \E kept \in W_kept(seen), outcome \in WriteOutcomes :
         /\ file' = save_seen(file, kept, outcome)
         /\ saved' = (outcome = "ok")
         /\ pc' = IF outcome = "ok" THEN "post" ELSE "crashed"
    /\ writes' = writes + 1
    /\ UNCHANGED <<env, run, prog, loaded, posts, delivered, file0, late,
                   only429, cur, prev, slept, unlinked>>

\* lines 136-147: nothing is posted without new jobs; else one message
W_Post ==
    /\ script = "workflow" /\ pc = "post"
    /\ LET batch == W_limit(new_jobs) IN
         IF new_jobs = <<>>
         THEN pc' = "done" /\ UNCHANGED <<posts, delivered, late>>
         ELSE IF \E i \in 1..Len(batch) : W_format_raises(batch[i])
         THEN Crash /\ UNCHANGED <<posts, delivered, late>>
         ELSE \E ok \in BOOLEAN :
                /\ SlackCall(Msg("combined", [i \in 1..Len(batch) |-> W_format_job(batch[i])]), ok)
                /\ pc' = IF ok THEN "done" ELSE "crashed"
    /\ UNCHANGED <<env, file, run, prog, loaded, file0, writes, only429, saved, cur, prev, slept, unlinked>>

(***************************************************************************)
(* The scheduler starts the next run in a fresh process                    *)
(***************************************************************************)
NextRun ==
    /\ pc \in {"done", "crashed"}
    /\ run < runs
    /\ run' = run + 1
    /\ pc' = "init"
    /\ seen' = EmptySeen
    /\ qi' = 0 /\ attempt' = 0 /\ rate_limited' = FALSE
    /\ data' = "none" /\ nleft' = 0
    /\ posted_blocks' = <<>> /\ new_jobs' = <<>>
    /\ total_found' = 0 /\ total_kept_canada' = 0 /\ total_new' = 0
    /\ rate_limited_queries' = 0
    /\ chunk' = <<>> /\ size' = 0 /\ ci' = 0
    /\ loaded' = {} /\ posts' = <<>> /\ writes' = 0 /\ late' = {}
    /\ only429' = FALSE /\ saved' = FALSE
    /\ prev' = IF saved THEN cur ELSE {}
    /\ cur' = {}
    /\ slept' = FALSE
    /\ unlinked' = FALSE
    /\ UNCHANGED <<env, file, delivered, file0>>

(***************************************************************************)
(* Specifications                                                          *)
(***************************************************************************)
Next ==
    \/ CheckConfig
    \/ J_Load \/ J_Plan \/ J_Attempt \/ J_Respond \/ J_Job
    \/ J_Save \/ J_Summary \/ J_Chunk \/ J_Flush
    \/ W_Load \/ W_Query \/ W_Job \/ W_Save \/ W_Post

Spec == Init /\ [][Next]_vars

NextRuns == Next \/ NextRun

SpecRuns == InitRuns /\ [][NextRuns]_vars

NextDeliver == J_Summary \/ J_Chunk \/ J_Flush \/ W_Post

SpecDeliver == InitDeliver /\ [][NextDeliver]_vars

NextBudget ==
    \/ J_Plan \/ J_Attempt \/ J_Respond \/ J_Job
    \/ J_Save \/ J_Summary \/ J_Chunk \/ J_Flush
    \/ W_Query \/ W_Job \/ W_Save \/ W_Post

SpecBudget == InitBudget /\ [][NextBudget]_vars


(***************************************************************************)
(* Properties                                                              *)
(***************************************************************************)
RECURSIVE Flatten(_)
\* the blocks of the messages, in posting order
Flatten(msgs) ==
    IF msgs = <<>> THEN <<>> ELSE Head(msgs).blocks \o Flatten(Tail(msgs))

\* the job items the sink accepted in this run
Sent == Flatten(posts)

\* the blocks the run has queued for delivery
Handed ==
    IF script = "jobbot" THEN posted_blocks
    ELSE [i \in 1..Len(new_jobs) |-> W_format_job(new_jobs[i])]

Jids(blocks) == { blocks[i].jid : i \in 1..Len(blocks) }

NoRepeat(blocks) ==
    \A i, j \in 1..Len(blocks) : i # j => blocks[i].jid # blocks[j].jid

Finished == pc \in {"done", "crashed"}

\* C1 (Idempotence): a run that follows a run which saved its SeenSet, and
\* that receives no posting the earlier run did not receive (no new upstream
\* data between the runs), delivers no job item.  prev is empty when the
\* earlier run did not save, so the premise then holds only for a run that
\* received nothing.
C1_Idempotence ==
    (run > 1 /\ cur \subseteq prev) => Sent = <<>>

\* C2 (No duplicate delivery): no block queued for, or accepted by, the sink
\* has a fingerprint that was in the SeenSet loaded at run start, and no two
\* of them have the same fingerprint.
C2_NoDuplicateDelivery ==
    /\ Jids(Handed) \cap loaded = {}
    /\ NoRepeat(Handed)
    /\ Jids(Sent) \cap loaded = {}
    /\ NoRepeat(Sent)

\* C2 witness: jobbot.py received the only posting of the catalogue more than
\* once, in two responses, queued it once, and the sink accepted it.
C2_Witness ==
    /\ script = "jobbot"
    /\ pc = "done"
    /\ Cardinality(catalogue) = 1
    /\ loaded = {}
    /\ total_found > MaxJobs
    /\ total_kept_canada = total_found
    /\ Len(Sent) = 1

\* C3 (No silent drops): when a run has ended, every fingerprint it added to
\* the persisted SeenSet belongs to a block the sink accepted.
C3_NoSilentDrops ==
    Finished => (file.fps \ file0) \subseteq delivered

\* C4 (Bounded batch delivery): no message of the chunking loop is longer than
\* SLACK_CHUNK_CHAR_LIMIT.
C4_BoundedBatch ==
    \A i \in 1..Len(posts) :
        posts[i].kind = "batch" => JoinLen(posts[i].blocks) <= SLACK_CHUNK_CHAR_LIMIT

\* C5 (Complete ordered delivery): when the delivery phase has completed, the
\* blocks of the posted messages, in posting order, are exactly the queued
\* blocks in their order.
C5_CompleteOrdered ==
    pc = "done" => Sent = Handed

\* C6 (Backoff termination): jsearch_request makes at most MAX_RETRIES_429
\* retries, and when every attempt answered 429 it returns None with
\* rate_limited = True after exactly that many retries, without raising.
C6_BackoffTermination ==
    /\ attempt - 1 <= MAX_RETRIES_429
    /\ only429 => pc \in {"request", "respond"}
    /\ (only429 /\ pc = "respond") =>
          /\ data = "none"
          /\ rate_limited
          /\ attempt - 1 = MAX_RETRIES_429

\* C6 witness: a request whose every attempt answered 429 has returned.
C6_Witness ==
    /\ pc = "respond"
    /\ only429
    /\ attempt = MAX_RETRIES_429 + 1
    /\ data = "none"

IsSummary(m) == m.kind \in {"summary", "combined"}

\* C7 (Exactly one summary): a run that completed posted exactly one summary.
C7_OneSummary ==
    pc = "done" => Cardinality({ i \in 1..Len(posts) : IsSummary(posts[i]) }) = 1

\* C8 (Terminal state is Done): no run fails during its fetch phase, whatever
\* the requests return.
C8_NoFatalState ==
    ~(pc = "crashed" /\ qi >= 1 /\ writes = 0)

\* C9 (Persistence once, at the very end): no fetch call and no delivery call
\* is made after the SeenSet file was written, and a completed run wrote it
\* exactly once.
C9_PersistLast ==
    /\ late = {}
    /\ pc = "done" => writes = 1

\* C10 (Jurisdiction hard-reject): no block accepted by the sink comes from a
\* record whose country code is US.
C10_UsNeverDelivered ==
    \A j \in catalogue :
        (j.isdict /\ StripUpper(j.job_country_code) = "US")
            => Fingerprint(script, j) \notin delivered

\* country codes of the model that denote a sovereign jurisdiction other than
\* the target
OtherCountryCodes == {"US", "GB"}

\* C11 (Other-country hard reject): jobbot.py never has a block accepted by
\* the sink that comes from a record whose country code is present and is
\* that of another country, whatever its country text or city says.
C11_OtherCountryNeverDelivered ==
    script = "jobbot" =>
        \A j \in catalogue :
            (j.isdict /\ StripUpper(j.job_country_code) \in OtherCountryCodes)
                => stable_job_id(j) \notin delivered

\* the records of the catalogue all carry the country code of the target
AllCodedCA ==
    \A j \in catalogue : j.isdict /\ StripUpper(j.job_country_code) = "CA"

\* C12 (First match wins on the country code): when every record the upstream
\* returns carries the country code CA, jobbot.py counts every record it has
\* processed as in scope (total_kept_canada), whatever the later fields say.
C12_CaCodeInScope ==
    (script = "jobbot" /\ AllCodedCA /\ pc # "crashed") =>
        total_kept_canada = total_found - (IF pc = "jobs" THEN nleft ELSE 0)

\* the fingerprints this run inserted into the SeenSet
Inserted == seen.fps \ loaded

\* C13 (Bounded SeenSet, FIFO eviction): a SeenSet file a run has written
\* holds at most STATE_KEEP fingerprints, and a fingerprint inserted in this
\* run is missing from it only if no fingerprint inserted before the run (a
\* loaded one) was kept.
C13_BoundedFifo ==
    saved =>
        /\ Cardinality(file.fps) + file.old <= STATE_KEEP
        /\ (Inserted \ file.fps # {}) =>
              (file.old = 0 /\ file.fps \cap loaded = {})

\* the new items the run has collected
NewCount == IF script = "jobbot" THEN total_new ELSE Len(new_jobs)

\* a step that issues a fetch call
FetchCall == J_Attempt \/ (W_Query /\ qi <= NumGroups)

\* C14 (Maximum-new-items budget): with POST_LIMIT as the budget, no fetch
\* call is issued once the run has collected POST_LIMIT new items, and the
\* sink never accepts more than POST_LIMIT job items in a run.
C14_Budget ==
    /\ [](Len(Sent) <= POST_LIMIT)
    /\ [][NewCount >= POST_LIMIT => ~FetchCall]_vars

\* what the state file holds when it is a JSON array or a {"seen": [...]}
\* object, the empty set otherwise
FileContent(f) ==
    IF f.kind \in {"list", "seenobj"} THEN [fps |-> f.fps, old |-> f.old]
    ELSE EmptySeen

\* C15 (Load never aborts): no run fails while loading the SeenSet, and until
\* the run writes the file the set it loaded is exactly the content of a
\* file that is a JSON array or a {"seen": [...]} object, and empty for any
\* other file.
C15_LoadNeverAborts ==
    /\ ~(pc = "crashed" /\ qi = 0)
    /\ (qi >= 1 /\ writes = 0) =>
          /\ loaded = FileContent(file).fps
          /\ seen.old = FileContent(file).old

\* a string with its blanks stripped and its letters in lower case
Normalized(s) ==
    CASE s = "A" -> "a"
      [] OTHER -> StripLower(s)

\* two records that differ only in blanks or letter case of identity fields
Reformatted(j1, j2) ==
    /\ j1 # j2
    /\ j1.isdict /\ j2.isdict
    /\ j1.job_country_code = j2.job_country_code
    /\ j1.blockLen = j2.blockLen
    /\ Normalized(j1.job_id) = Normalized(j2.job_id)
    /\ Normalized(j1.job_title) = Normalized(j2.job_title)
    /\ Normalized(j1.job_city) = Normalized(j2.job_city)
    /\ Normalized(j1.job_country) = Normalized(j2.job_country)
    /\ Normalized(j1.job_apply_link) = Normalized(j2.job_apply_link)
    /\ Normalized(j1.job_url) = Normalized(j2.job_url)

\* the accepted blocks of this run that come from one of the two records
SentOf(j1, j2) ==
    { i \in 1..Len(Sent) :
        Sent[i].jid \in {Fingerprint(script, j1), Fingerprint(script, j2)} }

\* C16 (Fingerprint stability): of two records that differ only in blanks or
\* letter case of identity fields, a run has at most one block accepted by
\* the sink, and none when the fingerprint of either was loaded as seen.
C16_FingerprintStability ==
    \A j1, j2 \in catalogue :
        Reformatted(j1, j2) =>
            /\ Cardinality(SentOf(j1, j2)) <= 1
            /\ (Fingerprint(script, j1) \in loaded => SentOf(j1, j2) = {})

\* the run is about to issue the first call of a planned request that is not
\* the first of the run
BetweenRequests ==
    /\ qi > 1
    /\ \/ script = "jobbot" /\ pc = "request" /\ attempt = 0
       \/ script = "workflow" /\ pc = "query" /\ qi <= NumGroups

\* C17 (Proactive throttle): when a planned request other than the first is
\* about to be issued, the inter-request delay was slept after the last fetch
\* call, whatever that call returned.
C17_ThrottleBetweenRequests ==
    BetweenRequests => slept

\* the run failed while it handled a record of a response list: in the loop
\* over jobs, or in the workflow script's format_job
RaisedOnRecord ==
    /\ pc = "crashed"
    /\ \/ data = "list" /\ writes = 0
       \/ script = "workflow" /\ saved /\ "post" \notin late

\* C18 (One bad record never discards the rest): no run raises on an element
\* of a response list, whatever its type and the types of its fields.
C18_BadRecordSkipped == ~RaisedOnRecord

\* the records of the catalogue without a usable link
NoLink == { j \in catalogue : j.isdict /\ pick_best_link(j) = "" }

\* C19 (Seen/queue agreement): in a run of jobbot.py the fingerprints added
\* to seen since the load are exactly those of the blocks in posted_blocks,
\* total_new is the length of posted_blocks, and the fingerprint of a record
\* without a usable link is neither added nor queued.
C19_SeenQueueAgreement ==
    script = "jobbot" =>
        /\ Inserted = Jids(posted_blocks)
        /\ total_new = Len(posted_blocks)
        /\ \A j \in NoLink : stable_job_id(j) \notin Inserted \cup Jids(posted_blocks)

\* C19 witness: jobbot.py completed a run in which a record without a usable
\* link passed the filters and another record was queued and posted.
C19_Witness ==
    /\ script = "jobbot"
    /\ pc = "done"
    /\ unlinked
    /\ Len(posted_blocks) >= 1
    /\ Inserted = Jids(Sent)

\* C20 (No empty flush): every message of the chunking loop of jobbot.py that
\* the sink accepted holds at least one item.
C20_NoEmptyFlush ==
    \A i \in 1..Len(posts) :
        posts[i].kind = "batch" => posts[i].blocks # <<>>

====
